---------------------------- MODULE Spec2Model ----------------------------
(***************************************************************************)
(* A model of lahmacuncache.c: a TTL cache kept in a chained hash table    *)
(* that doubles when its load factor is exceeded, guarded by one mutex.    *)
(*                                                                         *)
(* Strings are sequences of bytes (a C string without its terminating      *)
(* NUL).  The heap is a function from addresses to CacheEntry records;     *)
(* address 0 is the NULL pointer.                                          *)
(*                                                                         *)
(* The three size constants of the source are scaled down so that the      *)
(* cases they decide (a key that fills the key array, a table that         *)
(* crosses its load factor) are reachable with a handful of entries:       *)
(*   MAX_KEY_SIZE 256 -> 2, MAX_VALUE_SIZE 1024 -> 2,                      *)
(*   INITIAL_TABLE_SIZE 10000 -> 2.                                        *)
(* Everything else is computed as the code computes it.                    *)
(*                                                                         *)
(* Four specifications share the variables:                                *)
(*   Spec      one caller, every call one step, the full input domain;     *)
(*   SpecMT    several threads; locking, resizeCache, the rest of each     *)
(*             critical section and the caller's read of the string that   *)
(*             getCache returned are steps of their own;                   *)
(*   SpecLife  one caller from createCache to freeCache, setCache in       *)
(*             steps, one entry more than in Spec, two keys;               *)
(*   SpecLoad  the load-factor test of setCache on tables of up to 2^26    *)
(*             buckets, of which only count and table_size are kept.       *)
(***************************************************************************)
EXTENDS Integers, Sequences, FiniteSets, TLC

(***************************************************************************)
(* Program constants (scaled, see above).                                  *)
(***************************************************************************)
MAX_KEY_SIZE == 2
MAX_VALUE_SIZE == 2
INITIAL_TABLE_SIZE == 2

(***************************************************************************)
(* Bounds of the model.                                                    *)
(***************************************************************************)
\* CacheEntry objects that can be allocated at the same time.
MaxEntries == 2
\* The clock time(NULL) runs from 0 to MaxTime.
MaxTime == 1
\* How far below zero the unsigned count may be driven before the model
\* stops exploring.
MaxUnder == 2
\* How many times the table may double.
MaxDoublings == 2
\* Threads that call into the cache.
NThreads == 2
\* CacheEntry objects that can be allocated at the same time in the
\* specification of a whole cache life (SpecLife); at least MaxEntries.
MaxLive == 3
\* How many times the table has doubled at most where only its load-factor
\* test is examined (SpecLoad).
MaxLoadDoublings == 25
\* How far from seven tenths of table_size the count of such a table lies
\* at most.
MaxOff == 2

NULL == 0
Addrs == 1..MaxLive

\* The bytes 'a', '!', 'x', 'y'.  The keys are "a" and "!", which differ by
\* 64 and so share a bucket at every table size up to 64, "aa", which fills
\* the key array, and "aax", which is longer than the key array.  The
\* values are "x", "y" and "xx", which fills the value array.
Keys == { <<97>>, <<33>>, <<97, 97>>, <<97, 97, 120>> }
Values == { <<120>>, <<121>>, <<120, 120>> }
TTLs == { 0, 2 }

\* What the threads of the multi-threaded specification pass: two keys that
\* share a bucket, one value.
ThreadKeys == { <<97>>, <<33>> }
ThreadValues == { <<120>> }

\* What the caller of the whole-life specification passes: the keys "a" and
\* "e", which share a bucket while the table has 2 or 4 buckets and part
\* when it has 8, and one value.
LifeKeys == { <<97>>, <<101>> }
LifeValues == { <<120>> }

VARIABLES
    cache,   \* the Cache object and the CacheEntry objects it owns
    now,     \* time(NULL)
    lock,    \* cache->lock: 0 when free, else the thread that holds it
    pc,      \* per thread: where it is
    last     \* the last call that ran its critical section, and its result

vars == <<cache, now, lock, pc, last>>

(***************************************************************************)
(* unsigned int arithmetic, kept in two 16-bit halves <<hi, lo>> so that   *)
(* hash * 33 + c wraps at 2^32 as in C.                                    *)
(***************************************************************************)
Half == 65536

\* hash = ((hash << 5) + hash) + c, on unsigned int
HashStep(h, c) ==
    LET lo == h[2] * 33 + c
        hi == h[1] * 33 + (lo \div Half)
    IN  << hi % Half, lo % Half >>

\* c = *key++: the byte read through a const char *, which is a signed
\* char in the build (gcc, x86-64), converted to int.
CharToInt(b) == IF b >= 128 THEN b - 256 ELSE b

RECURSIVE HashLoop(_, _, _)
HashLoop(h, s, i) ==
    IF i > Len(s) THEN h
    ELSE HashLoop(HashStep(h, CharToInt(s[i])), s, i + 1)

\* hash(key, table_size): djb2 from 5381, reduced modulo table_size
hash(key, table_size) ==
    LET h == HashLoop(<<0, 5381>>, key, 1)
    IN  ((h[1] % table_size) * (Half % table_size) + h[2]) % table_size

(***************************************************************************)
(* Strings in fixed arrays.                                                *)
(***************************************************************************)
Min(a, b) == IF a < b THEN a ELSE b

\* strncpy(dst, src, n): the first n bytes of src; dst holds a terminating
\* NUL only when src is shorter than n.
StrNCpy(src, n) == SubSeq(src, 1, Min(Len(src), n))

\* The bytes of a time_t read as a string: little-endian, up to the first
\* zero byte.
RECURSIVE LEBytes(_)
LEBytes(n) == IF n % 256 = 0 THEN <<>> ELSE <<n % 256>> \o LEBytes(n \div 256)

\* entry->value read as a C string.  A value that fills the array has no
\* terminator, and the read runs on into expry, the next field.
ValueStr(e) ==
    IF Len(e.value) < MAX_VALUE_SIZE THEN e.value
    ELSE e.value \o LEBytes(e.expry)

\* entry->key read as a C string.  A key that fills the array has no
\* terminator, and the read runs on into value, the next field.
KeyStr(e) ==
    IF Len(e.key) < MAX_KEY_SIZE THEN e.key
    ELSE e.key \o ValueStr(e)

(***************************************************************************)
(* cache->count is a size_t.  The model keeps the representative of its    *)
(* value modulo 2^64 that lies nearest zero: -1 stands for 2^64 - 1.       *)
(***************************************************************************)
\* The number of low bits a float drops from n: a float has 24 significant
\* bits.
RECURSIVE FloatExp(_)
FloatExp(n) == IF n < 16777216 THEN 0 ELSE 1 + FloatExp(n \div 2)

\* (float)n for 0 <= n < 2^31, as <<q, e>> with value q * 2^e: n rounded to
\* 24 significant bits, to nearest, ties to the even q.
Float(n) ==
    LET e == FloatExp(n)
        q == n \div (2 ^ e)
        r == n % (2 ^ e)
    IN  IF 2 * r > 2 ^ e \/ (2 * r = 2 ^ e /\ q % 2 = 1)
        THEN <<q + 1, e>>
        ELSE <<q, e>>

\* a / b >= c / d for a, c >= 0 and b, d > 0, by the integer parts and then
\* the remainders, so that no product is formed.
RECURSIVE QuotientAtLeast(_, _, _, _)
QuotientAtLeast(a, b, c, d) ==
    IF a \div b # c \div d THEN a \div b > c \div d
    ELSE IF c % d = 0 THEN TRUE
    ELSE IF a % b = 0 THEN FALSE
    ELSE QuotientAtLeast(d, c % d, b, a % b)

\* (float)(cache->count + 1) / cache->table_size > LOAD_FACTOR_THRESHOLD
\* Both operands are converted to float and the quotient is rounded to
\* float; 0.7 is a double and lies between the floats 11744051 / 2^24 and
\* 11744052 / 2^24.  The rounded quotient exceeds it exactly when it is at
\* least the upper one, that is when the quotient of the two floats is at
\* least the midpoint 23488103 / 2^25 (the tie goes to the even upper
\* one).  A count + 1 that has wrapped is of the order of 2^64 and exceeds
\* the threshold for every table size; a count + 1 that is not below
\* table_size gives a quotient of at least 1.
LoadExceeded(c) ==
    LET n == c.count + 1
        fn == Float(n)
        fs == Float(c.table_size)
    IN  IF n < 0 \/ n >= c.table_size THEN TRUE
        ELSE QuotientAtLeast(fn[1], fs[1],
                             23488103, 2 ^ (25 - (fs[2] - fn[2])))

(***************************************************************************)
(* resizeCache                                                             *)
(***************************************************************************)
\* The while loop over one old chain: each entry is pushed on the head of
\* its new bucket.  st = [heap, new_entries].
RECURSIVE ResizeChain(_, _, _)
ResizeChain(st, entry, new_size) ==
    IF entry = NULL THEN st
    ELSE LET index == hash(KeyStr(st.heap[entry]), new_size)
             next_entry == st.heap[entry].next
         IN  ResizeChain(
                 [heap |-> [st.heap EXCEPT ![entry].next = st.new_entries[index]],
                  new_entries |-> [st.new_entries EXCEPT ![index] = entry]],
                 next_entry, new_size)

\* The for loop over the old buckets.
RECURSIVE ResizeBuckets(_, _, _)
ResizeBuckets(st, c, i) ==
    IF i >= c.table_size THEN st
    ELSE ResizeBuckets(ResizeChain(st, c.entries[i], 2 * c.table_size), c, i + 1)

\* resizeCache with `if (entry)` in place of `while (entry)`: only the head
\* of each old chain is moved, the entries behind it are left behind.
RECURSIVE ResizeHeads(_, _, _)
ResizeHeads(st, c, i) ==
    IF i >= c.table_size THEN st
    ELSE LET entry == c.entries[i]
             index == hash(KeyStr(st.heap[entry]), 2 * c.table_size)
         IN  IF entry = NULL THEN ResizeHeads(st, c, i + 1)
             ELSE ResizeHeads(
                      [heap |-> [st.heap EXCEPT ![entry].next = st.new_entries[index]],
                       new_entries |-> [st.new_entries EXCEPT ![index] = entry]],
                      c, i + 1)

resizeCacheHeads(c) ==
    LET new_size == c.table_size * 2
        st == ResizeHeads([heap |-> c.heap,
                           new_entries |-> [i \in 0..(new_size - 1) |-> NULL]],
                          c, 0)
    IN  [c EXCEPT !.entries = st.new_entries,
                  !.table_size = new_size,
                  !.heap = st.heap]

\* resizeCache with `new_size = cache->table_size * 3`: the entries are
\* relinked as before into a table of three times the size.
resizeCacheTriple(c) ==
    LET new_size == c.table_size * 3
        st == ResizeBuckets([heap |-> c.heap,
                             new_entries |-> [i \in 0..(new_size - 1) |-> NULL]],
                            c, 0)
    IN  [c EXCEPT !.entries = st.new_entries,
                  !.table_size = new_size,
                  !.heap = st.heap]

resizeCache(c) ==
    LET new_size == c.table_size * 2
        st == ResizeBuckets([heap |-> c.heap,
                             new_entries |-> [i \in 0..(new_size - 1) |-> NULL]],
                            c, 0)
    IN  [c EXCEPT !.entries = st.new_entries,
                  !.table_size = new_size,
                  !.heap = st.heap]

(***************************************************************************)
(* createCache                                                             *)
(***************************************************************************)
createCache ==
    [entries |-> [i \in 0..(INITIAL_TABLE_SIZE - 1) |-> NULL],
     table_size |-> INITIAL_TABLE_SIZE,
     count |-> 0,
     heap |-> << >>]

(***************************************************************************)
(* setCache                                                                *)
(***************************************************************************)
\* malloc(sizeof(CacheEntry)): the lowest address not in use.
Malloc(heap) == CHOOSE a \in Addrs : a \notin DOMAIN heap /\
                    \A b \in Addrs : b \notin DOMAIN heap => a <= b

\* The part of setCache after the load-factor test.
Insert(c, key, value, ttl, t) ==
    LET index == hash(key, c.table_size)
        entry == Malloc(c.heap)
        rec == [key |-> StrNCpy(key, MAX_KEY_SIZE),
                value |-> StrNCpy(value, MAX_VALUE_SIZE),
                expry |-> t + ttl,
                is_set |-> 1,
                next |-> c.entries[index]]
    IN  [c EXCEPT !.heap = [a \in DOMAIN c.heap \cup {entry} |->
                               IF a = entry THEN rec ELSE c.heap[a]],
                  !.entries[index] = entry,
                  !.count = c.count + 1]

setCache(c, key, value, ttl, t) ==
    Insert(IF LoadExceeded(c) THEN resizeCache(c) ELSE c, key, value, ttl, t)

(***************************************************************************)
(* getCache                                                                *)
(***************************************************************************)
\* The while loop from `entry` on.  The result is the cache as the loop
\* left it and how the call ended: "value" (the address of the entry whose
\* value is returned), "null", or "hang": at an entry whose key differs the
\* loop body changes nothing, entry included, and the loop never ends.
RECURSIVE GetLoop(_, _, _, _)
GetLoop(c, entry, key, t) ==
    IF entry = NULL THEN [cache |-> c, end |-> "null", entry |-> NULL]
    ELSE IF KeyStr(c.heap[entry]) = key
         THEN IF t < c.heap[entry].expry
              THEN [cache |-> c, end |-> "value", entry |-> entry]
              ELSE GetLoop([c EXCEPT !.heap[entry].is_set = 0,
                                     !.count = c.count - 1],
                           c.heap[entry].next, key, t)
         ELSE [cache |-> c, end |-> "hang", entry |-> entry]

\* getCache without the else: an expired entry with the key is marked not
\* live and counted off, and its value is returned all the same.
GetLoopStale(c, entry, key, t) ==
    IF entry = NULL THEN [cache |-> c, end |-> "null", entry |-> NULL]
    ELSE IF KeyStr(c.heap[entry]) = key
         THEN IF t < c.heap[entry].expry
              THEN [cache |-> c, end |-> "value", entry |-> entry]
              ELSE [cache |-> [c EXCEPT !.heap[entry].is_set = 0,
                                        !.count = c.count - 1],
                    end |-> "value", entry |-> entry]
         ELSE [cache |-> c, end |-> "hang", entry |-> entry]

getCacheStale(c, key, t) ==
    GetLoopStale(c, c.entries[hash(key, c.table_size)], key, t)

getCache(c, key, t) == GetLoop(c, c.entries[hash(key, c.table_size)], key, t)

(***************************************************************************)
(* deleteCache                                                             *)
(***************************************************************************)
\* free(entry)
Free(heap, entry) == [a \in DOMAIN heap \ {entry} |-> heap[a]]

RECURSIVE DeleteLoop(_, _, _, _, _)
DeleteLoop(c, index, prev_entry, entry, key) ==
    IF entry = NULL THEN [cache |-> c, freed |-> NULL]
    ELSE IF KeyStr(c.heap[entry]) = key
         THEN LET unlinked ==
                      IF prev_entry # NULL
                      THEN [c EXCEPT !.heap[prev_entry].next = c.heap[entry].next]
                      ELSE [c EXCEPT !.entries[index] = c.heap[entry].next]
              IN  [cache |-> [unlinked EXCEPT !.heap = Free(unlinked.heap, entry),
                                              !.count = c.count - 1],
                   freed |-> entry]
         ELSE DeleteLoop(c, index, entry, c.heap[entry].next, key)

\* deleteCache with the comparison inverted: it removes the first entry
\* whose key differs.
RECURSIVE DeleteLoopOther(_, _, _, _, _)
DeleteLoopOther(c, index, prev_entry, entry, key) ==
    IF entry = NULL THEN [cache |-> c, freed |-> NULL]
    ELSE IF KeyStr(c.heap[entry]) # key
         THEN LET unlinked ==
                      IF prev_entry # NULL
                      THEN [c EXCEPT !.heap[prev_entry].next = c.heap[entry].next]
                      ELSE [c EXCEPT !.entries[index] = c.heap[entry].next]
              IN  [cache |-> [unlinked EXCEPT !.heap = Free(unlinked.heap, entry),
                                              !.count = c.count - 1],
                   freed |-> entry]
         ELSE DeleteLoopOther(c, index, entry, c.heap[entry].next, key)

deleteCacheOther(c, key) ==
    LET index == hash(key, c.table_size)
    IN  DeleteLoopOther(c, index, NULL, c.entries[index], key)

\* deleteCache without `prev_entry->next = entry->next`: an entry that is
\* not the head of its chain is freed while its predecessor still points
\* to it.
RECURSIVE DeleteLoopKeepLink(_, _, _, _, _)
DeleteLoopKeepLink(c, index, prev_entry, entry, key) ==
    IF entry = NULL THEN [cache |-> c, freed |-> NULL]
    ELSE IF KeyStr(c.heap[entry]) = key
         THEN LET unlinked ==
                      IF prev_entry # NULL
                      THEN c
                      ELSE [c EXCEPT !.entries[index] = c.heap[entry].next]
              IN  [cache |-> [unlinked EXCEPT !.heap = Free(unlinked.heap, entry),
                                              !.count = c.count - 1],
                   freed |-> entry]
         ELSE DeleteLoopKeepLink(c, index, entry, c.heap[entry].next, key)

deleteCacheKeepLink(c, key) ==
    LET index == hash(key, c.table_size)
    IN  DeleteLoopKeepLink(c, index, NULL, c.entries[index], key)

deleteCache(c, key) ==
    LET index == hash(key, c.table_size)
    IN  DeleteLoop(c, index, NULL, c.entries[index], key)

(***************************************************************************)
(* freeCache                                                               *)
(***************************************************************************)
\* Every entry of every chain is freed, then the bucket array and the
\* Cache itself.  The model keeps the record and shows the released bucket
\* array as one without chains.
freeCache(c) ==
    [c EXCEPT !.entries = [i \in 0..(c.table_size - 1) |-> NULL],
              !.heap = << >>]

(***************************************************************************)
(* The state machine.                                                      *)
(***************************************************************************)
Threads == 1..NThreads
Main == 1

\* Where a thread is.  entry is the CacheEntry that the pointer getCache
\* returned to the thread points into, while the thread has yet to read it.
Idle == [at |-> "idle", op |-> "none", key |-> <<>>, value |-> <<>>, ttl |-> 0,
         entry |-> NULL]

NoCall == [op |-> "none", key |-> <<>>, value |-> <<>>, ttl |-> 0,
           end |-> "done", ret |-> <<>>, ticked |-> FALSE]

\* What a call's critical section did, as its caller sees it.  ret is the
\* string getCache returned (<<>> when it returned NULL or never returned).
SetCall(key, value, ttl) ==
    [op |-> "set", key |-> key, value |-> value, ttl |-> ttl,
     end |-> "done", ret |-> <<>>, ticked |-> FALSE]

GetCall(key, r) ==
    [op |-> "get", key |-> key, value |-> <<>>, ttl |-> 0,
     end |-> r.end,
     ret |-> IF r.end = "value" THEN ValueStr(r.cache.heap[r.entry]) ELSE <<>>,
     ticked |-> FALSE]

\* end is "deleted" when deleteCache printed "Data deleted", else "noop".
DeleteCall(key, r) ==
    [op |-> "delete", key |-> key, value |-> <<>>, ttl |-> 0,
     end |-> IF r.freed # NULL THEN "deleted" ELSE "noop",
     ret |-> <<>>, ticked |-> FALSE]

Init ==
    /\ cache = createCache
    /\ now = 0
    /\ lock = 0
    /\ pc = [t \in Threads |-> Idle]
    /\ last = NoCall

MaxTableSize == INITIAL_TABLE_SIZE * (2 ^ MaxDoublings)

\* The model explores a set only while fewer than n entries are allocated
\* and the table stays within MaxDoublings doublings.
CanSetUpTo(c, n) ==
    /\ Cardinality(DOMAIN c.heap) < n
    /\ (IF LoadExceeded(c) THEN 2 * c.table_size ELSE c.table_size) <= MaxTableSize

CanSet(c) == CanSetUpTo(c, MaxEntries)

\* The model explores a get or delete only while count stays above -MaxUnder.
CanCount(c) == c.count >= 0 - MaxUnder

(***************************************************************************)
(* One caller: each call runs from pthread_mutex_lock to                   *)
(* pthread_mutex_unlock in one step.                                       *)
(***************************************************************************)
Ready == lock = 0 /\ pc[Main].at = "idle"

Set(key, value, ttl) ==
    /\ Ready
    /\ CanSet(cache)
    /\ cache' = setCache(cache, key, value, ttl, now)
    /\ last' = SetCall(key, value, ttl)
    /\ UNCHANGED <<now, lock, pc>>

Get(key) ==
    /\ Ready
    /\ LET r == getCache(cache, key, now)
       IN  /\ CanCount(r.cache)
           /\ cache' = r.cache
           /\ last' = GetCall(key, r)
           /\ IF r.end = "hang"
              THEN /\ lock' = Main
                   /\ pc' = [pc EXCEPT ![Main] =
                                [Idle EXCEPT !.at = "hung", !.op = "get", !.key = key]]
              ELSE UNCHANGED <<lock, pc>>
    /\ UNCHANGED now

Delete(key) ==
    /\ Ready
    /\ LET r == deleteCache(cache, key)
       IN  /\ CanCount(r.cache)
           /\ cache' = r.cache
           /\ last' = DeleteCall(key, r)
    /\ UNCHANGED <<now, lock, pc>>

\* time(NULL) moves on by one second.
Tick ==
    /\ now < MaxTime
    /\ now' = now + 1
    /\ last' = [last EXCEPT !.ticked = TRUE]
    /\ UNCHANGED <<cache, lock, pc>>

Next ==
    \/ \E key \in Keys, value \in Values, ttl \in TTLs : Set(key, value, ttl)
    \/ \E key \in Keys : Get(key)
    \/ \E key \in Keys : Delete(key)
    \/ Tick

Spec == Init /\ [][Next]_vars

(***************************************************************************)
(* Several callers: pthread_mutex_lock, resizeCache and the rest of each   *)
(* critical section are steps of their own.  A thread waiting for the      *)
(* mutex is a thread whose Lock step is not enabled.                       *)
(***************************************************************************)
\* A lock that never makes its caller wait.
MutexFreeAlways(l) == TRUE

\* pthread_mutex_lock(&cache->lock) returns only once the mutex is free.
MutexFree(l) == l = 0

\* Thread t calls op and acquires the mutex.
Lock(t, op, key, value, ttl) ==
    /\ pc[t].at = "idle"
    /\ MutexFree(lock)
    /\ op = "set" => CanSet(cache)
    /\ lock' = t
    /\ pc' = [pc EXCEPT ![t] = [at |-> "locked", op |-> op, key |-> key,
                                value |-> value, ttl |-> ttl, entry |-> NULL]]
    /\ UNCHANGED <<cache, now, last>>

\* setCache finds the load factor exceeded and calls resizeCache.
Resize(t) ==
    /\ pc[t].at = "locked" /\ pc[t].op = "set"
    /\ LoadExceeded(cache)
    /\ cache' = resizeCache(cache)
    /\ pc' = [pc EXCEPT ![t].at = "resized"]
    /\ UNCHANGED <<now, lock, last>>

\* setCache inserts the entry and releases the mutex.
SetInsert(t) ==
    /\ pc[t].op = "set"
    /\ \/ pc[t].at = "resized"
       \/ pc[t].at = "locked" /\ ~LoadExceeded(cache)
    /\ cache' = Insert(cache, pc[t].key, pc[t].value, pc[t].ttl, now)
    /\ last' = SetCall(pc[t].key, pc[t].value, pc[t].ttl)
    /\ lock' = 0
    /\ pc' = [pc EXCEPT ![t] = Idle]
    /\ UNCHANGED now

\* getCache walks the chain; when the walk ends it releases the mutex and
\* returns NULL or a pointer to entry->value.
GetBody(t) ==
    /\ pc[t].at = "locked" /\ pc[t].op = "get"
    /\ LET r == getCache(cache, pc[t].key, now)
       IN  /\ CanCount(r.cache)
           /\ cache' = r.cache
           /\ last' = GetCall(pc[t].key, r)
           /\ IF r.end = "hang"
              THEN /\ pc' = [pc EXCEPT ![t].at = "hung"]
                   /\ UNCHANGED lock
              ELSE /\ pc' = [pc EXCEPT ![t] =
                                IF r.end = "value"
                                THEN [Idle EXCEPT !.at = "returned", !.op = "get",
                                                  !.key = pc[t].key,
                                                  !.entry = r.entry]
                                ELSE Idle]
                   /\ lock' = 0
    /\ UNCHANGED now

\* The caller reads the string getCache returned, as the printf of main
\* does, without the mutex.  The read of an entry that has been freed in
\* the meantime (pc[t].entry below zero, see Dangle) is undefined, also
\* when malloc has handed the address out again since: the caller goes on
\* with whatever bytes are at the address now, or the program ends and no
\* thread runs any further.
ReadValue(t) ==
    /\ pc[t].at = "returned"
    /\ \/ /\ pc[t].entry \in DOMAIN cache.heap
          /\ pc' = [pc EXCEPT ![t] = Idle]
          /\ UNCHANGED lock
       \/ /\ pc[t].entry \notin DOMAIN cache.heap
          /\ \/ /\ pc' = [pc EXCEPT ![t] = Idle]
                /\ UNCHANGED lock
             \/ /\ pc' = [u \in Threads |-> [Idle EXCEPT !.at = "crashed"]]
                /\ lock' = 0
    /\ UNCHANGED <<cache, now, last>>

\* free(entry) as the callers that still hold a pointer into the entry see
\* it: their pointer to address a becomes the dangling pointer -a, which
\* a later malloc of the same address does not make valid again.
Dangle(p, freed) ==
    [u \in Threads |->
        IF p[u].at = "returned" /\ p[u].entry = freed
        THEN [p[u] EXCEPT !.entry = 0 - freed]
        ELSE p[u]]

\* deleteCache walks the chain and releases the mutex.
DeleteBody(t) ==
    /\ pc[t].at = "locked" /\ pc[t].op = "delete"
    /\ LET r == deleteCache(cache, pc[t].key)
       IN  /\ CanCount(r.cache)
           /\ cache' = r.cache
           /\ last' = DeleteCall(pc[t].key, r)
           /\ pc' = Dangle([pc EXCEPT ![t] = Idle], r.freed)
    /\ lock' = 0
    /\ UNCHANGED now

NextMT ==
    \/ \E t \in Threads, key \in ThreadKeys, value \in ThreadValues, ttl \in TTLs :
           Lock(t, "set", key, value, ttl)
    \/ \E t \in Threads, key \in ThreadKeys : Lock(t, "get", key, <<>>, 0)
    \/ \E t \in Threads, key \in ThreadKeys : Lock(t, "delete", key, <<>>, 0)
    \/ \E t \in Threads : Resize(t)
    \/ \E t \in Threads : SetInsert(t)
    \/ \E t \in Threads : GetBody(t)
    \/ \E t \in Threads : ReadValue(t)
    \/ \E t \in Threads : DeleteBody(t)
    \/ Tick

SpecMT == Init /\ [][NextMT]_vars

(***************************************************************************)
(* One caller, the whole life of a cache as in main: createCache, calls    *)
(* of setCache, getCache and deleteCache with up to MaxLive entries        *)
(* allocated, then freeCache, after which the cache is not used again.     *)
(* setCache runs in the steps of the section above, so that the table as   *)
(* resizeCache leaves it is a state of its own.                            *)
(***************************************************************************)
\* The caller calls setCache, which acquires the mutex.
LockLive(key, value, ttl) ==
    /\ pc[Main].at = "idle"
    /\ MutexFree(lock)
    /\ CanSetUpTo(cache, MaxLive)
    /\ lock' = Main
    /\ pc' = [pc EXCEPT ![Main] = [at |-> "locked", op |-> "set", key |-> key,
                                   value |-> value, ttl |-> ttl, entry |-> NULL]]
    /\ UNCHANGED <<cache, now, last>>

FreeCall == [NoCall EXCEPT !.op = "free"]

FreeCache ==
    /\ Ready
    /\ cache' = freeCache(cache)
    /\ last' = FreeCall
    /\ pc' = [pc EXCEPT ![Main] = [Idle EXCEPT !.at = "freed", !.op = "free"]]
    /\ UNCHANGED <<now, lock>>

NextLife ==
    \/ \E key \in LifeKeys, value \in LifeValues, ttl \in TTLs : LockLive(key, value, ttl)
    \/ Resize(Main)
    \/ SetInsert(Main)
    \/ \E key \in LifeKeys : Get(key)
    \/ \E key \in LifeKeys : Delete(key)
    \/ Tick
    \/ FreeCache

SpecLife == Init /\ [][NextLife]_vars

(***************************************************************************)
(* The load-factor test on large tables.  A table of millions of buckets   *)
(* is kept as its two counters, count and table_size, alone: the test of   *)
(* setCache reads nothing else.  The tables are the sizes the doubling     *)
(* reaches from INITIAL_TABLE_SIZE, each with a count within MaxOff of     *)
(* seven tenths of the size.                                               *)
(***************************************************************************)
LoadTables == { INITIAL_TABLE_SIZE * 2 ^ k : k \in 0..MaxLoadDoublings }

LoadCounts(table_size) ==
    { n \in { (7 * table_size) \div 10 + d : d \in (0 - MaxOff)..MaxOff } : n >= 0 }

\* What setCache does to table_size and count: the test, the assignment of
\* new_size at the end of resizeCache, and cache->count++.
setCounters(c) ==
    [table_size |-> IF LoadExceeded(c) THEN c.table_size * 2 ELSE c.table_size,
     count |-> c.count + 1]

InitLoad ==
    /\ \E table_size \in LoadTables :
           \E count \in LoadCounts(table_size) :
               cache = [table_size |-> table_size, count |-> count]
    /\ now = 0
    /\ lock = 0
    /\ pc = [t \in Threads |-> Idle]
    /\ last = NoCall

\* One call of setCache by the one caller.
SetLoad ==
    /\ Ready
    /\ last.op = "none"
    /\ cache' = setCounters(cache)
    /\ last' = [NoCall EXCEPT !.op = "set"]
    /\ UNCHANGED <<now, lock, pc>>

NextLoad == SetLoad

SpecLoad == InitLoad /\ [][NextLoad]_vars

(***************************************************************************)
(* Reading the table.                                                      *)
(***************************************************************************)
Range(s) == { s[i] : i \in 1..Len(s) }

\* The addresses of a chain, head first.
RECURSIVE ChainFrom(_, _)
ChainFrom(heap, entry) ==
    IF entry = NULL THEN <<>> ELSE <<entry>> \o ChainFrom(heap, heap[entry].next)

Chain(c, i) == ChainFrom(c.heap, c.entries[i])

\* The entries reachable from the bucket array.
Reachable(c) == UNION { Range(Chain(c, i)) : i \in 0..(c.table_size - 1) }

\* Entry e holds key: the bytes setCache stored for it.
HasKey(e, key) == e.key = StrNCpy(key, MAX_KEY_SIZE)

\* The reachable entries for key that have not expired at time t.
Unexpired(c, key, t) ==
    { a \in Reachable(c) : HasKey(c.heap[a], key) /\ t < c.heap[a].expry }

\* Every entry of the bucket that key hashes to compares equal to key, so
\* that getCache's walk meets no other key there.
OnlyKeyInBucket(c, key) ==
    \A a \in Range(Chain(c, hash(key, c.table_size))) : KeyStr(c.heap[a]) = key

\* This step is a call of getCache(key), setCache(key, ...), deleteCache(key).
GetStep(key) ==
    last'.op = "get" /\ last'.key = key /\ ~last'.ticked /\ now' = now

SetStep(key) ==
    /\ last'.op = "set" /\ last'.key = key /\ ~last'.ticked /\ now' = now
    /\ cache' # cache

DeleteStep(key) ==
    last'.op = "delete" /\ last'.key = key /\ ~last'.ticked /\ now' = now

(***************************************************************************)
(* The claims.                                                             *)
(***************************************************************************)

\* C1: round trip.  A get(key) issued right after set(key, value, ttl) with
\* ttl > 0, with no clock tick and no other call in between, returns
\* exactly value, from every reachable table state.
C1_RoundTrip ==
    [][ \A key \in Keys :
          (/\ last.op = "set" /\ last.key = key /\ last.ttl > 0 /\ ~last.ticked
           /\ GetStep(key))
          => (last'.end = "value" /\ last'.ret = last.value) ]_vars

\* C2: when the table holds no unexpired entry for key, get(key) completes,
\* releases the lock and returns absent, whatever entries with other keys
\* are in the bucket it probes.
C2_GetAbsentCompletes ==
    [][ \A key \in Keys :
          (GetStep(key) /\ Unexpired(cache, key, now) = {})
          => (last'.end = "null" /\ lock' = 0) ]_vars

\* C3: independence of distinct keys.  Right after set(k1, v1, t1) and then
\* set(k2, v2, t2) with k1 # k2 and neither entry expired, get(k1) returns
\* v1 and get(k2) returns v2.
C3_DistinctKeysIndependent ==
    [][ \A k1, k2 \in Keys :
          (/\ k1 # k2
           /\ last.op = "set" /\ last.key = k1 /\ last.ttl > 0 /\ ~last.ticked
           /\ SetStep(k2) /\ last'.ttl > 0)
          => LET r1 == getCache(cache', k1, now)
                 r2 == getCache(cache', k2, now)
             IN  /\ r1.end = "value"
                 /\ ValueStr(r1.cache.heap[r1.entry]) = last.value
                 /\ r2.end = "value"
                 /\ ValueStr(r2.cache.heap[r2.entry]) = last'.value ]_vars

\* C4: deletion.  From every reachable table state, delete(key) followed
\* directly by get(key) returns absent.  Stated for the states in which
\* the bucket of key holds no other key, where the walk of getCache ends.
C4_DeleteThenGetAbsent ==
    [][ \A key \in Keys :
          (/\ last.op = "delete" /\ last.key = key /\ ~last.ticked
           /\ OnlyKeyInBucket(cache, key)
           /\ GetStep(key))
          => last'.end = "null" ]_vars

\* C5: expiration.  From every reachable table state, set(key, value, 0)
\* followed by a clock advance of at least one unit makes the next
\* get(key) return absent, also when older entries for key with longer
\* TTLs are in the chain.  Stated for the states in which the bucket of
\* key holds no other key, where the walk of getCache ends.
C5_ExpiredThenGetAbsent ==
    [][ \A key \in Keys :
          (/\ last.op = "set" /\ last.key = key /\ last.ttl = 0 /\ last.ticked
           /\ OnlyKeyInBucket(cache, key)
           /\ GetStep(key))
          => last'.end = "null" ]_vars

\* The fields of an entry that setCache writes once.
Content(e) == [key |-> e.key, value |-> e.value, expry |-> e.expry,
               is_set |-> e.is_set]

\* C6: shadowing on repeated set.  set(key, a, ttl) then set(key, b, ttl)
\* (ttl > 0) then get(key) returns b; set never replaces or removes an
\* older entry: each set adds one entry and one to count (two sets: two),
\* both entries are in the chain of the bucket of key, and every entry
\* stays reachable until a delete removes it.
C6_ShadowingOnRepeatedSet ==
    [][ /\ \A key \in Keys :
             SetStep(key) =>
                 /\ cache'.count = cache.count + 1
                 /\ Reachable(cache) \subseteq Reachable(cache')
                 /\ Cardinality(Reachable(cache')) = Cardinality(Reachable(cache)) + 1
                 /\ \A a \in Reachable(cache) :
                        Content(cache'.heap[a]) = Content(cache.heap[a])
        /\ \A key \in Keys :
             (/\ last.op = "set" /\ last.key = key /\ last.ttl > 0 /\ ~last.ticked
              /\ SetStep(key) /\ last'.ttl > 0)
             => LET old == cache.entries[hash(key, cache.table_size)]
                    index == hash(key, cache'.table_size)
                    new == cache'.entries[index]
                    r == getCache(cache', key, now)
                IN  /\ old # new
                    /\ {old, new} \subseteq Range(Chain(cache', index))
                    /\ r.end = "value"
                    /\ ValueStr(r.cache.heap[r.entry]) = last'.value
        /\ (\A key \in Keys : ~DeleteStep(key))
             => Reachable(cache) \subseteq Reachable(cache') ]_vars

\* The table sizes that repeated doubling reaches.
Doublings == { INITIAL_TABLE_SIZE * (2 ^ n) : n \in 0..(MaxDoublings + 1) }

\* C7: resize preserves reachability.  Once the table has doubled one or
\* more times, a key with one unexpired entry is retrievable by get with
\* the value it was set with, and the bucket count is the initial count
\* times a power of two.
C7_ResizeKeepsReachable ==
    /\ [](cache.table_size \in Doublings)
    /\ [][ \A key \in Keys :
             (/\ cache.table_size > INITIAL_TABLE_SIZE
              /\ Cardinality(Unexpired(cache, key, now)) = 1
              /\ GetStep(key))
             => /\ last'.end = "value"
                /\ \A a \in Unexpired(cache, key, now) :
                       last'.ret = cache.heap[a].value ]_vars

\* C8: delete of an absent key is a no-op.  When no entry in the table
\* holds the key, delete(key) ends, releases the lock and leaves the bucket
\* array, every chain, the bucket count and count unchanged, whatever
\* entries are in the bucket it probes.
C8_DeleteAbsentIsNoop ==
    [][ \A key \in Keys :
          (/\ DeleteStep(key)
           /\ \A a \in Reachable(cache) : ~HasKey(cache.heap[a], key))
          => (cache' = cache /\ lock' = 0 /\ pc' = pc /\ last'.end = "noop") ]_vars

\* A delete of a key that no entry holds has just run on a bucket that is
\* not empty.
C8_Witness ==
    /\ last.op = "delete" /\ last.end = "noop" /\ ~last.ticked
    /\ lock = 0
    /\ cache.entries[hash(last.key, cache.table_size)] # NULL
    /\ \A a \in Reachable(cache) : ~HasKey(cache.heap[a], last.key)

\* C9: count bookkeeping.  Whenever the lock is free, count is the number
\* of reachable entries marked live (is_set = 1).
C9_CountIsLiveEntries ==
    lock = 0 =>
        cache.count = Cardinality({ a \in Reachable(cache) : cache.heap[a].is_set = 1 })

\* Thread t is between its pthread_mutex_lock and its pthread_mutex_unlock.
InCritical(t) == pc[t].at \in {"locked", "resized", "hung"}

\* C10: mutual exclusion.  With several threads calling set, get and
\* delete, at most one thread at a time is between its lock acquisition
\* and its release, that thread is the holder of the mutex, and the table
\* is resized only by a thread that is inside set and holds the lock.
C10_MutualExclusion ==
    /\ [](\A t1, t2 \in Threads : (InCritical(t1) /\ InCritical(t2)) => t1 = t2)
    /\ [](\A t \in Threads : InCritical(t) <=> lock = t)
    /\ [][ cache'.table_size # cache.table_size
             => \E t \in Threads :
                    /\ lock = t /\ lock' = t
                    /\ pc[t].op = "set" /\ pc[t].at = "locked" ]_vars

\* One thread has resized the table inside set and holds the lock while
\* the other is outside its critical section.
C10_Witness ==
    \E t \in Threads :
        /\ pc[t].at = "resized" /\ pc[t].op = "set" /\ lock = t
        /\ cache.table_size > INITIAL_TABLE_SIZE
        /\ \E u \in Threads : u # t /\ pc[u].at = "idle"


(***************************************************************************)
(* The structure of the table.                                             *)
(***************************************************************************)
\* The addresses met on a walk of at most n steps from entry along next.
\* The walk ends at NULL and at an address that is not allocated.
RECURSIVE Walk(_, _, _)
Walk(heap, entry, n) ==
    IF entry = NULL \/ n = 0 THEN <<>>
    ELSE IF entry \notin DOMAIN heap THEN <<entry>>
    ELSE <<entry>> \o Walk(heap, heap[entry].next, n - 1)

\* The walk from the head of bucket i, long enough to go round a cycle.
BucketWalk(c, i) == Walk(c.heap, c.entries[i], Cardinality(DOMAIN c.heap) + 1)

\* The places <<bucket, position>> at which address a is met.
Places(c, a) ==
    { p \in (0..(c.table_size - 1)) \X (1..(Cardinality(DOMAIN c.heap) + 1)) :
        p[2] <= Len(BucketWalk(c, p[1])) /\ BucketWalk(c, p[1])[p[2]] = a }

\* No bucket head and no next pointer refers to a freed entry.
NoDangling(c) ==
    /\ \A i \in 0..(c.table_size - 1) : c.entries[i] \in DOMAIN c.heap \cup {NULL}
    /\ \A a \in DOMAIN c.heap : c.heap[a].next \in DOMAIN c.heap \cup {NULL}

\* No chain runs into itself: every walk ends before it has made more
\* steps than there are entries.
Acyclic(c) ==
    \A i \in 0..(c.table_size - 1) :
        Len(BucketWalk(c, i)) <= Cardinality(DOMAIN c.heap)

\* Every allocated entry is met at exactly one place of exactly one chain.
InOneChain(c) == \A a \in DOMAIN c.heap : Cardinality(Places(c, a)) = 1

StructurallySound(c) ==
    /\ DOMAIN c.entries = 0..(c.table_size - 1)
    /\ NoDangling(c)
    /\ Acyclic(c)
    /\ InOneChain(c)

\* C11: concurrency safety.  Under every interleaving of the threads'
\* set, get and delete calls on keys that share a bucket, whenever the
\* lock is free the table is structurally sound: every allocated entry is
\* reachable from exactly one bucket chain, chains are acyclic, and no
\* bucket head or next pointer refers to a freed entry.
C11_StructurallySound == lock = 0 => StructurallySound(cache)

\* The lock is free after a delete that freed one of the two entries of a
\* table that has doubled, while another thread is between the
\* return of its get and its read of the value.
C11_Witness ==
    /\ lock = 0
    /\ last.op = "delete" /\ last.end = "deleted"
    /\ cache.table_size > INITIAL_TABLE_SIZE
    /\ Cardinality(DOMAIN cache.heap) = 1
    /\ \E t \in Threads : pc[t].at = "returned"
    /\ \E t \in Threads : pc[t].at = "idle"


\* C12: placement invariant.  Every entry sits in the bucket that get and
\* delete probe for the key it was set with: a set puts its new entry in
\* the chain of bucket hash(key) mod bucket_count, and the entry that the
\* last set put there for its key is, as long as it is in the table, still
\* in the chain of that key's bucket after the next call, a set that
\* resizes included, also for keys of the maximum key length and beyond.
C12_PlacementInvariant ==
    [][ /\ \A key \in Keys :
             SetStep(key) =>
                 LET index == hash(key, cache'.table_size)
                 IN  /\ cache'.entries[index] \in Reachable(cache') \ Reachable(cache)
                     /\ HasKey(cache'.heap[cache'.entries[index]], key)
        /\ \A key \in Keys :
             (last.op = "set" /\ last.key = key)
             => LET entry == cache.entries[hash(key, cache.table_size)]
                IN  entry \in Reachable(cache')
                    => entry \in Range(Chain(cache', hash(key, cache'.table_size))) ]_vars


\* C13: the bucket count is monotone.  No step decreases it, get and
\* delete leave it unchanged, and in every reachable state it is the
\* initial bucket count times a power of two.
C13_BucketCountMonotone ==
    /\ [](\E k \in 0..(MaxDoublings + 1) :
             cache.table_size = INITIAL_TABLE_SIZE * (2 ^ k))
    /\ [][ /\ cache'.table_size >= cache.table_size
           /\ \A key \in Keys :
                (GetStep(key) \/ DeleteStep(key))
                => cache'.table_size = cache.table_size ]_vars

\* The table has doubled twice and a get or a delete has run on it since.
C13_Witness ==
    /\ cache.table_size = INITIAL_TABLE_SIZE * 4
    /\ last.op \in {"get", "delete"}
    /\ cache.heap # << >>


\* Steps of a caller whose setCache runs in parts: this step is the
\* resizeCache of a set, the insertion that ends set(key, ...), a whole
\* call of getCache(key) or deleteCache(key).
ResizePart(t) == pc[t].at = "locked" /\ pc'[t].at = "resized"

InsertPart(t, key) ==
    /\ pc[t].at \in {"locked", "resized"} /\ pc[t].op = "set" /\ pc[t].key = key
    /\ pc'[t].at = "idle"

GetWhole(key) ==
    pc[Main].at = "idle" /\ pc'[Main].at # "locked" /\ GetStep(key)

DeleteWhole(key) ==
    pc[Main].at = "idle" /\ pc'[Main].at # "locked" /\ DeleteStep(key)

\* Entry a is ahead of entry b in the chain of one bucket.
Ahead(c, a, b) ==
    \E i \in 0..(c.table_size - 1) :
        \E m, n \in 1..Len(Chain(c, i)) :
            m < n /\ Chain(c, i)[m] = a /\ Chain(c, i)[n] = b

\* C14: newest-first chain order.  Entries with the same key are in their
\* chain in most-recently-set-first order, after any sequence of set, get
\* and delete and any number of resizes: a set puts its entry ahead of
\* every entry with the same key, and no step changes the order of two
\* entries with the same key that stay in the table, so that the first
\* match get meets is the most recently set one.
C14_NewestFirstOrder ==
    [][ /\ \A key \in LifeKeys :
             InsertPart(Main, key) =>
                 LET new == cache'.entries[hash(key, cache'.table_size)]
                 IN  /\ new \notin Reachable(cache)
                     /\ \A b \in Reachable(cache) :
                            HasKey(cache.heap[b], key) => Ahead(cache', new, b)
        /\ \A a, b \in Reachable(cache) \cap Reachable(cache') :
             (cache.heap[a].key = cache.heap[b].key /\ Ahead(cache, a, b))
             => Ahead(cache', a, b) ]_vars


\* C15: resize trigger.  A set doubles the bucket count exactly when
\* (count + 1) / bucket_count > 0.7 holds as it takes the lock, and leaves
\* it unchanged otherwise; either way it doubles at most once and adds
\* exactly 1 to count.  (That the set adds exactly one entry, at the head of
\* bucket hash(key) mod (new bucket count), is a statement about the chains,
\* which the tables of SpecLoad leave out; the counts of SpecLoad are
\* not negative, so that count + 1 is the plain sum.)
C15_ResizeTrigger ==
    [][ last'.op = "set" =>
          /\ cache'.table_size =
                 IF 10 * (cache.count + 1) > 7 * cache.table_size
                 THEN 2 * cache.table_size
                 ELSE cache.table_size
          /\ cache'.count = cache.count + 1 ]_vars


\* C16: a resize moves the entries without loss.  The step of resizeCache
\* leaves the set of entries, the key, value, expiration and liveness flag
\* of each, and count unchanged; every entry that was in a chain is
\* afterwards at exactly one place of exactly one chain, none is freed,
\* and the bucket count has doubled.
C16_ResizeMovesWithoutLoss ==
    [][ ResizePart(Main) =>
          /\ cache'.table_size = 2 * cache.table_size
          /\ DOMAIN cache'.entries = 0..(cache'.table_size - 1)
          /\ cache'.count = cache.count
          /\ DOMAIN cache'.heap = DOMAIN cache.heap
          /\ \A a \in DOMAIN cache.heap :
                 Content(cache'.heap[a]) = Content(cache.heap[a])
          /\ Reachable(cache') = Reachable(cache)
          /\ \A a \in Reachable(cache) : Cardinality(Places(cache', a)) = 1
          /\ UNCHANGED <<now, lock>> ]_vars

\* resizeCache has just split a chain of two entries, one of them marked
\* not live, over two buckets of the table of four times the initial size.
C16_Witness ==
    /\ pc[Main].at = "resized"
    /\ cache.table_size = 4 * INITIAL_TABLE_SIZE
    /\ \E a, b \in Reachable(cache) :
           /\ a # b
           /\ cache.heap[a].is_set = 0
           /\ cache.heap[a].next = NULL /\ cache.heap[b].next = NULL


\* C17: get is lazy.  No get unlinks or frees an entry: bucket heads, next
\* links, bucket count and the entries' key, value and expiration are
\* unchanged by it.  A get that returns a value leaves every liveness flag
\* and count unchanged as well; a get changes the liveness flag of an
\* entry only if it is an expired entry with the key, and only to not-live.
C17_GetIsLazy ==
    [][ \A key \in Keys :
          GetStep(key) =>
              /\ cache'.entries = cache.entries
              /\ cache'.table_size = cache.table_size
              /\ DOMAIN cache'.heap = DOMAIN cache.heap
              /\ \A a \in DOMAIN cache.heap :
                     /\ cache'.heap[a].next = cache.heap[a].next
                     /\ cache'.heap[a].key = cache.heap[a].key
                     /\ cache'.heap[a].value = cache.heap[a].value
                     /\ cache'.heap[a].expry = cache.heap[a].expry
                     /\ cache'.heap[a].is_set # cache.heap[a].is_set
                            => /\ KeyStr(cache.heap[a]) = key
                               /\ now >= cache.heap[a].expry
                               /\ cache'.heap[a].is_set = 0
              /\ last'.end = "value"
                     => /\ cache'.count = cache.count
                        /\ \A a \in DOMAIN cache.heap :
                               cache'.heap[a].is_set = cache.heap[a].is_set ]_vars


\* C18: tombstones are final.  Once a get has marked an entry not live,
\* the entry is never marked live again, nothing else of it changes, no
\* later get returns its value (the clock never runs backwards), and it
\* leaves the table only by being freed, in a delete or in the teardown.
C18_TombstonesAreFinal ==
    [][ \A a \in DOMAIN cache.heap :
          cache.heap[a].is_set = 0 =>
              /\ a \in DOMAIN cache'.heap
                     => Content(cache'.heap[a]) = Content(cache.heap[a])
              /\ a \notin DOMAIN cache'.heap
                     => \/ \E key \in LifeKeys :
                               DeleteWhole(key) /\ last'.end = "deleted"
                        \/ last'.op = "free" /\ pc'[Main].at = "freed"
              /\ \A key \in LifeKeys :
                     GetWhole(key) =>
                         LET r == getCache(cache, key, now)
                         IN  r.end = "value" => r.entry # a ]_vars

\* A second get has met the one entry of the table, which the first had
\* marked not live, and returned absent.
C18_Witness ==
    /\ last.op = "get" /\ last.end = "null" /\ ~last.ticked
    /\ cache.count = 0 - 1
    /\ \E a \in DOMAIN cache.heap :
           /\ DOMAIN cache.heap = {a}
           /\ cache.heap[a].is_set = 0
           /\ HasKey(cache.heap[a], last.key)


\* C19: the value a get hands back stays valid for its caller.  In no
\* interleaving of the threads does a thread that has yet to read the
\* string getCache returned to it hold a pointer into an entry that has
\* been freed.
C19_ReturnedValueStaysValid ==
    \A t \in Threads :
        pc[t].at = "returned" => pc[t].entry \in DOMAIN cache.heap


\* C20: the unsigned counter never wraps below zero.  In every reachable
\* state, after any sequence of set, get and delete (repeated gets of one
\* expired entry and the delete of a tombstoned entry included), count is
\* at least zero and at most the number of entries in the chains, so that
\* the load-factor test of a later set never sees a wrapped count.
C20_CountNeverWraps ==
    /\ cache.count >= 0
    /\ cache.count <= Cardinality(Reachable(cache))

=============================================================================
